---- MODULE Spec2Model ----
(* Billing reconciliation of dummy-api-test: the Stripe webhook endpoint    *)
(* (app/routes/stripe.py stripe_webhook and its handlers), the event log    *)
(* (stripe_event_log), and the usage synchronizer (sync_usage with          *)
(* record_meter_event of app/integrations/stripe_client.py).                *)
EXTENDS Integers, Sequences, FiniteSets, TLC

\* ------------------------------------------------------------------ bounds
MaxDeliveries == 2      \* webhook deliveries received in one behaviour
MaxPasses == 2          \* sync_usage passes started in one behaviour
MaxUsage == 2           \* usage_events rows recorded in one behaviour
MaxClock == 2           \* last value of the wall clock
MaxInputs == 4           \* requests, usage rows and clock ticks in one behaviour

\* --------------------------------------------------------------- constants
MaxAttempts == 3        \* range(3) of record_meter_event
None == "None"          \* a NULL string column / a missing payload key
NoTime == -1            \* a NULL timestamp column / a missing timestamp
NoClient == 0           \* no client id / no client found
NoService == 0          \* no service id
BadRef == -1            \* a client reference that int() rejects
BadTime == -2           \* a current_period_end that fromtimestamp() rejects
Epoch == 0              \* datetime.fromtimestamp(0)

Clients == {1, 2}       \* ids of the rows of the clients table
Deliveries == {1, 2}    \* concurrently served webhook requests
UnitSizes == {3, 5}     \* units of a usage event
METERED_PRICE == "price_metered"   \* settings.stripe_price_metered_id
BASE_PRICE == "price_base"         \* settings.stripe_price_base_monthly_id

VARIABLES
  clients,     \* committed rows of the clients table, by client id
  eventLog,    \* committed rows of stripe_event_log
  usage,       \* committed rows of usage_events
  clock,       \* the wall clock (datetime.now)
  wh,          \* the webhook requests: position, session and response
  sync,        \* the sync_usage request: position, session and results
  provider,    \* usage records the provider has accepted
  hist,        \* observation: handler runs and commits per event, calls made
  settings,    \* app.config.settings: which secrets the environment sets
  services,    \* committed rows of the services table
  apiKeys,     \* committed rows of api_keys
  pending,     \* committed rows of pending_api_key_deliveries
  sessions     \* committed rows of client_sessions

vars ==
  <<clients, eventLog, usage, clock, wh, sync, provider, hist, settings,
    services, apiKeys, pending, sessions>>

\* the tables of the client accounts
accountVars == <<services, apiKeys, pending, sessions>>

\* the tables and requests of the billing endpoints
billingVars == <<eventLog, wh, sync, provider, settings>>

\* ------------------------------------------------------------ event payloads
Item(id, price) == [id |-> id, price |-> price]

Payload(type, ref, meta, cust, sub, st, pend, items) ==
  [type |-> type, client_reference_id |-> ref, metadata_client_id |-> meta,
   customer |-> cust, subscription |-> sub, status |-> st,
   current_period_end |-> pend, items |-> items]

MeteredItems ==
  <<Item("si_base", BASE_PRICE), Item("si_metered", METERED_PRICE),
    Item("si_extra", METERED_PRICE)>>
BaseItems == <<Item("si_base", BASE_PRICE)>>

\* The notifications the provider may deliver, by event id.
EventIds == 1..20

EventOf(e) ==
  CASE e = 1 -> Payload("checkout.session.completed", 1, NoClient,
                        "cus_A", "sub_A", None, NoTime, <<>>)
    [] e = 2 -> Payload("customer.subscription.updated", NoClient, 1,
                        "cus_A", "sub_A", "active", 2, MeteredItems)
    [] e = 3 -> Payload("customer.subscription.deleted", NoClient, 1,
                        "cus_A", "sub_A", "active", 2, MeteredItems)
    [] e = 4 -> Payload("invoice.payment_failed", NoClient, NoClient,
                        "cus_A", "sub_A", None, NoTime, <<>>)
    [] e = 5 -> Payload("invoice.finalized", NoClient, NoClient,
                        "cus_A", "sub_A", None, NoTime, <<>>)
    [] e = 6 -> Payload("customer.subscription.updated", NoClient, 1,
                        "cus_A", "sub_A", "trialing", BadTime, BaseItems)
    [] e = 7 -> Payload("checkout.session.completed", 2, NoClient,
                        "cus_A", None, None, NoTime, <<>>)
    [] e = 8 -> Payload("charge.refunded", NoClient, NoClient,
                        "cus_A", None, None, NoTime, <<>>)
    [] e = 9 -> Payload("customer.subscription.created", NoClient, 2,
                        "cus_B", "sub_B", "trialing", NoTime, MeteredItems)
    [] e = 10 -> Payload("customer.subscription.updated", NoClient, 1,
                         "cus_A", "sub_A", "active", 2, BaseItems)
    [] e = 11 -> Payload("customer.subscription.updated", NoClient, NoClient,
                         "cus_B", "sub_A", "past_due", 2, MeteredItems)
    [] e = 12 -> Payload("customer.subscription.created", NoClient, NoClient,
                         "cus_B", "sub_C", "active", NoTime, BaseItems)
    [] e = 13 -> Payload("customer.subscription.updated", NoClient, NoClient,
                         "cus_X", "sub_X", "active", 2, MeteredItems)
    [] e = 14 -> Payload("invoice.paid", NoClient, NoClient,
                         "cus_A", "sub_A", None, NoTime, <<>>)
    [] e = 15 -> Payload("invoice.paid", NoClient, NoClient,
                         "cus_B", "sub_X", None, NoTime, <<>>)
    [] e = 16 -> Payload("invoice.payment_failed", NoClient, 1,
                         "cus_X", "sub_X", None, NoTime, <<>>)
    [] e = 17 -> Payload("checkout.session.completed", NoClient, 2,
                         "cus_B", None, None, NoTime, <<>>)
    [] e = 18 -> Payload("checkout.session.completed", 3, NoClient,
                         "cus_C", "sub_C", None, NoTime, <<>>)
    [] e = 19 -> Payload("checkout.session.completed", NoClient, NoClient,
                         "cus_C", "sub_C", None, NoTime, <<>>)
    [] e = 20 -> Payload("checkout.session.completed", 1, NoClient,
                         "cus_C", "sub_C", None, NoTime, <<>>)

\* ------------------------------------------------------------------ clients
NewClient ==
  [stripe_customer_id |-> None, stripe_subscription_id |-> None,
   stripe_metered_subscription_item_id |-> None, subscription_status |-> None,
   subscription_current_period_end |-> NoTime, billing_enabled |-> TRUE,
   usage_synced_until |-> NoTime, is_active |-> TRUE]

MinOf(S) == CHOOSE x \in S : \A y \in S : x <= y

\* db.query(Client).filter(...).first()
FirstClient(cl, field, value) ==
  LET found == {c \in Clients : cl[c][field] = value}
  IN IF found = {} THEN NoClient ELSE MinOf(found)

ClientById(ref) == IF ref \in Clients THEN ref ELSE NoClient

\* the two lookups in the other order
ClientByCustomerFirst(cl, customer_id, subscription_id) ==
  LET byCus == IF customer_id # None
               THEN FirstClient(cl, "stripe_customer_id", customer_id)
               ELSE NoClient
  IN IF byCus # NoClient THEN byCus
     ELSE IF subscription_id # None
          THEN FirstClient(cl, "stripe_subscription_id", subscription_id)
          ELSE NoClient

client_by_stripe_ids(cl, customer_id, subscription_id) ==
  LET bySub == IF subscription_id # None
               THEN FirstClient(cl, "stripe_subscription_id", subscription_id)
               ELSE NoClient
  IN IF bySub # NoClient THEN bySub
     ELSE IF customer_id # None
          THEN FirstClient(cl, "stripe_customer_id", customer_id)
          ELSE NoClient

\* the loop without its early return: the last matching item wins
LastMetered(items, i) ==
  LET idx == {j \in i..Len(items) : items[j].price = METERED_PRICE}
  IN IF idx = {} THEN None
     ELSE items[CHOOSE j \in idx : \A k \in idx : k <= j].id

RECURSIVE FirstMetered(_, _)
FirstMetered(items, i) ==
  IF i > Len(items) THEN None
  ELSE IF items[i].price = METERED_PRICE THEN items[i].id
  ELSE FirstMetered(items, i + 1)

extract_metered_subscription_item_id(subscription) ==
  FirstMetered(subscription.items, 1)

unix_to_datetime(ts) == IF ts = NoTime THEN NoTime ELSE ts

\* The outcome of a handler: whether it returned True, whether it raised,
\* the client it loaded and the attribute values its session holds for it.
Outcome(handled, raised, target, after) ==
  [handled |-> handled, raised |-> raised, target |-> target, after |-> after]

NotHandled == Outcome(FALSE, FALSE, NoClient, NewClient)

update_client_subscription_state(row, subscription) ==
  [row EXCEPT
     !.stripe_subscription_id = subscription.subscription,
     !.subscription_status = subscription.status,
     !.subscription_current_period_end =
        unix_to_datetime(subscription.current_period_end),
     !.stripe_metered_subscription_item_id =
        extract_metered_subscription_item_id(subscription)]

\* the handler assigning the subscription id also when the payload has none
CheckoutSetsSubscription(cl, p) ==
  LET raw == IF p.client_reference_id # NoClient THEN p.client_reference_id
             ELSE p.metadata_client_id
      c == ClientById(raw)
  IN IF raw = NoClient THEN NotHandled
     ELSE IF raw = BadRef THEN Outcome(FALSE, TRUE, NoClient, NewClient)
     ELSE IF c = NoClient THEN NotHandled
     ELSE Outcome(TRUE, FALSE, c,
            [cl[c] EXCEPT !.stripe_customer_id = p.customer,
                          !.stripe_subscription_id = p.subscription])

handle_checkout_completed(cl, p) ==
  LET raw == IF p.client_reference_id # NoClient THEN p.client_reference_id
             ELSE p.metadata_client_id
      c == ClientById(raw)
  IN IF raw = NoClient THEN NotHandled
     ELSE IF raw = BadRef THEN Outcome(FALSE, TRUE, NoClient, NewClient)
     ELSE IF c = NoClient THEN NotHandled
     ELSE Outcome(TRUE, FALSE, c,
            [cl[c] EXCEPT
               !.stripe_customer_id = p.customer,
               !.stripe_subscription_id =
                  IF p.subscription # None THEN p.subscription ELSE @])

\* the handler without the override of a deleted subscription's status
KeepStatus(type, st) == st

ForceCanceled(type, st) ==
  IF type = "customer.subscription.deleted" THEN "canceled" ELSE st

\* the handler without the lookup by the metadata's client id
NoMetadataFallback(p) == NoClient

\* subscription.get("metadata", {}).get("client_id"), then the query by id
metadata_client(p) ==
  IF p.metadata_client_id # NoClient THEN ClientById(p.metadata_client_id)
  ELSE NoClient

handle_subscription_event(cl, p) ==
  LET byIds == client_by_stripe_ids(cl, p.customer, p.subscription)
      c == IF byIds # NoClient THEN byIds ELSE metadata_client(p)
  IN IF byIds = NoClient /\ p.metadata_client_id = BadRef
       THEN Outcome(FALSE, TRUE, NoClient, NewClient)
     ELSE IF c = NoClient THEN NotHandled
     ELSE IF p.current_period_end = BadTime
       \* unix_to_datetime raises after the customer id, the subscription id
       \* and the status have been assigned
       THEN Outcome(FALSE, TRUE, c,
              [cl[c] EXCEPT !.stripe_customer_id = p.customer,
                            !.stripe_subscription_id = p.subscription,
                            !.subscription_status = p.status])
     ELSE LET upd == update_client_subscription_state(
                       [cl[c] EXCEPT !.stripe_customer_id = p.customer], p)
          IN Outcome(TRUE, FALSE, c,
               [upd EXCEPT !.subscription_status = ForceCanceled(p.type, @)])

\* an invoice handler that falls back to the metadata's client id
InvoiceWithMetadata(cl, p, st) ==
  LET byIds == client_by_stripe_ids(cl, p.customer, p.subscription)
      c == IF byIds # NoClient THEN byIds ELSE metadata_client(p)
  IN IF c = NoClient THEN NotHandled
     ELSE Outcome(TRUE, FALSE, c, [cl[c] EXCEPT !.subscription_status = st])

handle_invoice(cl, p, st) ==
  LET c == client_by_stripe_ids(cl, p.customer, p.subscription)
  IN IF c = NoClient THEN NotHandled
     ELSE Outcome(TRUE, FALSE, c, [cl[c] EXCEPT !.subscription_status = st])

handle_invoice_paid(cl, p) == handle_invoice(cl, p, "active")
handle_invoice_failed(cl, p) == handle_invoice(cl, p, "past_due")

\* the dispatch table without its entry for invoice.finalized
DispatchWithoutFinalized(cl, p) ==
  IF p.type = "checkout.session.completed" THEN handle_checkout_completed(cl, p)
  ELSE IF p.type \in {"customer.subscription.created",
                      "customer.subscription.updated",
                      "customer.subscription.deleted"}
    THEN handle_subscription_event(cl, p)
  ELSE IF p.type = "invoice.paid" THEN handle_invoice_paid(cl, p)
  ELSE IF p.type = "invoice.payment_failed" THEN handle_invoice_failed(cl, p)
  ELSE NotHandled

\* the dispatch table raising for a type it does not know
DispatchUnknownRaises(cl, p) ==
  IF p.type = "checkout.session.completed" THEN handle_checkout_completed(cl, p)
  ELSE IF p.type \in {"customer.subscription.created",
                      "customer.subscription.updated",
                      "customer.subscription.deleted"}
    THEN handle_subscription_event(cl, p)
  ELSE IF p.type = "invoice.paid" THEN handle_invoice_paid(cl, p)
  ELSE IF p.type = "invoice.payment_failed" THEN handle_invoice_failed(cl, p)
  ELSE IF p.type = "invoice.finalized" THEN Outcome(TRUE, FALSE, NoClient, NewClient)
  ELSE Outcome(FALSE, TRUE, NoClient, NewClient)

dispatch_event(cl, p) ==
  IF p.type = "checkout.session.completed" THEN handle_checkout_completed(cl, p)
  ELSE IF p.type \in {"customer.subscription.created",
                      "customer.subscription.updated",
                      "customer.subscription.deleted"}
    THEN handle_subscription_event(cl, p)
  ELSE IF p.type = "invoice.paid" THEN handle_invoice_paid(cl, p)
  ELSE IF p.type = "invoice.payment_failed" THEN handle_invoice_failed(cl, p)
  ELSE IF p.type = "invoice.finalized" THEN Outcome(TRUE, FALSE, NoClient, NewClient)
  ELSE NotHandled

Inputs ==
  hist.received + hist.passes + Cardinality(usage) + (clock - 1)
    + hist.requests + Cardinality(pending)

\* ------------------------------------------------------------------ session
\* The UPDATE a session flushes for a loaded row carries the columns whose
\* value differs from the loaded one.
Dirty(loaded, after) == {f \in DOMAIN loaded : after[f] # loaded[f]}

\* an UPDATE that writes every column of the loaded row
FlushAll(row, loaded, after) == after

\* an UPDATE that also writes usage_synced_until as the session loaded it
FlushStaleMark(row, loaded, after) ==
  [f \in DOMAIN row |->
     IF f \in Dirty(loaded, after) \cup {"usage_synced_until"}
     THEN after[f] ELSE row[f]]

Flush(row, loaded, after) ==
  [f \in DOMAIN row |-> IF f \in Dirty(loaded, after) THEN after[f] ELSE row[f]]

\* the except branch without its rollback
RollbackMissing(row, loaded, after) == Flush(row, loaded, after)

\* db.rollback(): the attribute values the session holds are discarded, so
\* the commit that follows writes none of them.
rollback(row, loaded, after) == row

\* the clients table without its two unique indexes
ClientIndexAbsent(cl, target, loaded, after) == FALSE

\* ix_clients_stripe_customer_id and ix_clients_stripe_subscription_id
ClientIndexViolated(cl, target, loaded, after) ==
  \E f \in {"stripe_customer_id", "stripe_subscription_id"} :
    /\ f \in Dirty(loaded, after)
    /\ after[f] # None
    /\ \E c \in Clients \ {target} : cl[c][f] = after[f]

\* the event log without its unique index
EventIndexAbsent(log, event_id) == FALSE

\* ix_stripe_event_log_event_id
EventIndexViolated(log, event_id) == \E r \in log : r.event_id = event_id

LogRow(id, e, st) ==
  [id |-> id, event_id |-> e, event_type |-> EventOf(e).type, status |-> st,
   error_message |-> FALSE, processed_at |-> NoTime]

\* ------------------------------------------------------------------ webhook
Idle ==
  [pc |-> "idle", event |-> 0, row |-> 0, out |-> NotHandled,
   loaded |-> NewClient, code |-> 0, status |-> None, sig |-> None]

Respond(w, code, st) ==
  [w EXCEPT !.pc = "done", !.code = code, !.status = st,
            !.out = NotHandled, !.loaded = NewClient]

Signatures == {"valid", "forged", "malformed"}

\* the endpoint without the verification of the signature
AcceptUnverified(sig) == TRUE

\* stripe.Webhook.construct_event returns the event (TRUE) or raises
\* ValueError / SignatureVerificationError (FALSE)
construct_event(sig) == sig = "valid"

\* the endpoint without the test of the webhook secret
SecretUnchecked(cfg) == TRUE

\* if not settings.stripe_webhook_secret: raise HTTPException(500)
webhook_secret_configured(cfg) == cfg.stripe_webhook_secret

\* stripe_webhook up to construct_event
WhReceive(d, e, sig) ==
  /\ wh[d].pc \in {"idle", "done", "crashed"}
  /\ hist.received < MaxDeliveries
  /\ Inputs < MaxInputs
  /\ wh' = [wh EXCEPT ![d] =
       IF ~webhook_secret_configured(settings)
       THEN \* the body and the signature are never read
            Respond(Idle, 500, None)
       ELSE IF construct_event(sig)
       THEN [Idle EXCEPT !.pc = "lookup", !.event = e, !.sig = sig]
       ELSE Respond([Idle EXCEPT !.sig = sig], 400, None)]
  /\ hist' = [hist EXCEPT !.received = @ + 1]
  /\ UNCHANGED <<clients, eventLog, usage, clock, sync, provider, settings>>
  /\ UNCHANGED accountVars

\* a lookup that lets a failed event through for another attempt
ExistingUnlessFailed(log, event_id) ==
  \E r \in log : r.event_id = event_id /\ r.status # "failed"

\* db.query(StripeEventLog).filter(StripeEventLog.event_id == event["id"]).first()
existing(log, event_id) == \E r \in log : r.event_id = event_id

\* existing = db.query(StripeEventLog).filter(event_id == ...).first()
WhLookup(d) ==
  /\ wh[d].pc = "lookup"
  /\ wh' = [wh EXCEPT ![d] =
       IF existing(eventLog, wh[d].event)
       THEN Respond(@, 200, "duplicate")
       ELSE [@ EXCEPT !.pc = "insert"]]
  /\ UNCHANGED <<clients, eventLog, usage, clock, sync, provider, hist, settings>>
  /\ UNCHANGED accountVars

\* db.add(log_row); db.commit(); db.refresh(log_row)
WhInsert(d) ==
  /\ wh[d].pc = "insert"
  /\ IF EventIndexViolated(eventLog, wh[d].event)
     THEN \* IntegrityError outside the try block
          /\ wh' = [wh EXCEPT ![d] = Respond(@, 500, None)]
          /\ UNCHANGED eventLog
     ELSE LET id == Cardinality(eventLog) + 1
          IN /\ eventLog' = eventLog \cup {LogRow(id, wh[d].event, "ignored")}
             /\ wh' = [wh EXCEPT ![d] = [@ EXCEPT !.pc = "dispatch", !.row = id]]
  /\ UNCHANGED <<clients, usage, clock, sync, provider, hist, settings>>
  /\ UNCHANGED accountVars

\* handled = _dispatch_event(db, event)
WhDispatch(d) ==
  /\ wh[d].pc = "dispatch"
  /\ LET out == dispatch_event(clients, EventOf(wh[d].event))
     IN wh' = [wh EXCEPT ![d] =
          [@ EXCEPT !.pc = IF out.raised THEN "except" ELSE "commit",
                    !.out = out,
                    !.loaded = IF out.target = NoClient THEN NewClient
                               ELSE clients[out.target]]]
  /\ hist' = [hist EXCEPT !.runs[wh[d].event] = @ + 1]
  /\ UNCHANGED <<clients, eventLog, usage, clock, sync, provider, settings>>
  /\ UNCHANGED accountVars

SetRow(log, id, st, err, at) ==
  {IF r.id = id
   THEN [r EXCEPT !.status = st, !.error_message = err, !.processed_at = at]
   ELSE r : r \in log}

\* log_row.status = ...; db.commit(); return {"status": log_row.status}
WhCommit(d) ==
  /\ wh[d].pc = "commit"
  /\ LET w == wh[d]
         t == w.out.target
         st == IF w.out.handled THEN "processed" ELSE "ignored"
     IN IF t # NoClient /\ ClientIndexViolated(clients, t, w.loaded, w.out.after)
        THEN \* the flush raises IntegrityError inside the try block
             /\ wh' = [wh EXCEPT ![d] = [@ EXCEPT !.pc = "except"]]
             /\ UNCHANGED <<clients, eventLog, hist>>
        ELSE /\ clients' = IF t = NoClient THEN clients
                           ELSE [clients EXCEPT ![t] =
                                   Flush(@, w.loaded, w.out.after)]
             /\ eventLog' = SetRow(eventLog, w.row, st, FALSE, clock)
             /\ wh' = [wh EXCEPT ![d] = Respond(@, 200, st)]
             /\ hist' = [hist EXCEPT !.commits[w.event] = @ + 1]
  /\ UNCHANGED <<usage, clock, sync, provider, settings>>
  /\ UNCHANGED accountVars

\* except Exception: db.rollback(); mark the row failed; db.commit(); 500
WhExcept(d) ==
  /\ wh[d].pc = "except"
  /\ clients' = IF wh[d].out.target = NoClient THEN clients
                ELSE [clients EXCEPT ![wh[d].out.target] =
                        rollback(@, wh[d].loaded, wh[d].out.after)]
  /\ eventLog' = SetRow(eventLog, wh[d].row, "failed", TRUE, clock)
  /\ wh' = [wh EXCEPT ![d] = Respond(@, 500, None)]
  /\ UNCHANGED <<usage, clock, sync, provider, hist, settings>>
  /\ UNCHANGED accountVars

\* The worker dies before the response is sent; its session is lost.
WhCrash(d) ==
  /\ wh[d].pc \in {"lookup", "insert", "dispatch", "commit", "except"}
  /\ wh' = [wh EXCEPT ![d] =
       [Idle EXCEPT !.pc = "crashed", !.event = wh[d].event]]
  /\ UNCHANGED <<clients, eventLog, usage, clock, sync, provider, hist, settings>>
  /\ UNCHANGED accountVars

\* --------------------------------------------------------------- sync_usage
RECURSIVE SumUnits(_)
SumUnits(rows) ==
  IF rows = {} THEN 0
  ELSE LET r == CHOOSE x \in rows : TRUE
       IN r.units + SumUnits(rows \ {r})

\* the window with its lower bound included
WindowInclusive(us, c, start, now) ==
  {u \in us : u.client_id = c /\ u.created_at >= start /\ u.created_at <= now}

\* .filter(client_id == client.id, created_at > start, created_at <= now)
Window(us, c, start, now) ==
  {u \in us : u.client_id = c /\ u.created_at > start /\ u.created_at <= now}

\* client.usage_synced_until or datetime.fromtimestamp(0)
WindowStart(row) ==
  IF row.usage_synced_until = NoTime THEN Epoch ELSE row.usage_synced_until

\* the query without its filter on the subscription status
EligibleAnyStatus(row) ==
  /\ row.stripe_subscription_id # None
  /\ row.stripe_metered_subscription_item_id # None

\* the filter of the clients query
Eligible(row) ==
  /\ row.stripe_subscription_id # None
  /\ row.stripe_metered_subscription_item_id # None
  /\ row.subscription_status \in {"active", "trialing"}

Selected(cl, client_id) ==
  {c \in Clients : Eligible(cl[c]) /\ (client_id # NoClient => c = client_id)}

\* the submission guard without the dry-run test, and without the sign test
SubmitInDryRun(units, dry_run) == units > 0

SubmitZero(units, dry_run) == ~dry_run

\* if units > 0 and not payload.dry_run
ShouldSubmit(units, dry_run) == units > 0 /\ ~dry_run

\* if not payload.dry_run: client.usage_synced_until = now
ShouldAdvance(dry_run) == ~dry_run

\* if not payload.dry_run: db.commit()
ShouldCommit(dry_run) == ~dry_run

UsageSyncRow(c, units, now, dry_run) ==
  [client_id |-> c, synced_units |-> units, synced_until |-> now,
   dry_run |-> dry_run]

SyncIdle ==
  [pc |-> "idle", now |-> NoTime, dry_run |-> FALSE, todo |-> {},
   loaded |-> [c \in Clients |-> NewClient], cur |-> NoClient, units |-> 0,
   window |-> {}, attempt |-> 0, slept |-> 0, marked |-> {}, results |-> {},
   selected |-> {}, failed |-> {}, calls |-> 0, last_error |-> None,
   raised |-> None, client_id |-> NoClient]

\* now = datetime.now(); clients = query.all()
SyncStart(client_id, dry_run) ==
  /\ sync.pc \in {"idle", "done", "failed"}
  /\ hist.passes < MaxPasses
  /\ Inputs < MaxInputs
  /\ LET sel == Selected(clients, client_id)
     IN sync' = [SyncIdle EXCEPT
          !.pc = "loop", !.now = clock, !.dry_run = dry_run, !.todo = sel,
          !.selected = sel, !.client_id = client_id,
          !.loaded = [c \in Clients |->
                        IF c \in sel THEN clients[c] ELSE NewClient]]
  /\ hist' = [hist EXCEPT !.passes = @ + 1]
  /\ UNCHANGED <<clients, eventLog, usage, clock, wh, provider, settings>>
  /\ UNCHANGED accountVars

\* the loop body advancing the mark only of a client with units to submit
FinishOnlySubmitted(s, c, units) ==
  [s EXCEPT
     !.pc = "loop", !.todo = @ \ {c}, !.cur = NoClient,
     !.marked = IF ShouldAdvance(s.dry_run) /\ units > 0 THEN @ \cup {c} ELSE @,
     !.results = @ \cup {UsageSyncRow(c, units, s.now, s.dry_run)}]

\* the rest of the loop body after record_meter_event
FinishClient(s, c, units) ==
  [s EXCEPT
     !.pc = "loop", !.todo = @ \ {c}, !.cur = NoClient,
     !.marked = IF ShouldAdvance(s.dry_run) THEN @ \cup {c} ELSE @,
     !.results = @ \cup {UsageSyncRow(c, units, s.now, s.dry_run)}]

\* observation: a call of record_meter_event, and a computed unit count with
\* the usage rows of the client that existed when it was computed
MeterCall(pass, c, quantity) ==
  [pass |-> pass, client_id |-> c, quantity |-> quantity]

Computed(pass, s, c, units) ==
  [pass |-> pass, client_id |-> c, now |-> s.now, dry_run |-> s.dry_run,
   seen |-> {u.id : u \in {x \in usage : x.client_id = c}}, units |-> units]

\* record_meter_event reading the secret key before the quantity
ConfigureFirst(quantity, cfg) ==
  IF ~cfg.stripe_secret_key THEN "RuntimeError"
  ELSE IF quantity <= 0 THEN "skipped"
  ELSE "attempt"

\* record_meter_event up to its retry loop: the None it returns for a
\* quantity <= 0 ("skipped"), the RuntimeError of _configure_stripe, or the
\* first attempt
record_meter_event(quantity, cfg) ==
  IF quantity <= 0 THEN "skipped"
  ELSE IF ~cfg.stripe_secret_key THEN "RuntimeError"
  ELSE "attempt"

\* one iteration up to the call of record_meter_event
SyncClient(c) ==
  /\ sync.pc = "loop"
  /\ c \in sync.todo
  /\ LET win == Window(usage, c, WindowStart(sync.loaded[c]), sync.now)
         units == SumUnits(win)
     IN IF ShouldSubmit(units, sync.dry_run)
        THEN /\ hist' = [hist EXCEPT
                  !.meterCalls = @ \cup {MeterCall(hist.passes, c, units)},
                  !.rows = @ \cup {Computed(hist.passes, sync, c, units)}]
             /\ sync' =
                  CASE record_meter_event(units, settings) = "skipped" ->
                         FinishClient(sync, c, units)
                    [] record_meter_event(units, settings) = "RuntimeError" ->
                         \* the request ends without a commit
                         [sync EXCEPT !.pc = "failed", !.failed = {c},
                                      !.cur = c, !.units = units,
                                      !.raised = "RuntimeError"]
                    [] OTHER ->
                         [sync EXCEPT !.pc = "meter", !.cur = c,
                                !.units = units, !.window = win,
                                !.attempt = 0, !.slept = 0, !.calls = 0,
                                !.last_error = None]
        ELSE /\ sync' = FinishClient(sync, c, units)
             /\ hist' = [hist EXCEPT
                  !.rows = @ \cup {Computed(hist.passes, sync, c, units)}]
  /\ UNCHANGED <<clients, eventLog, usage, clock, wh, provider, settings>>
  /\ UNCHANGED accountVars

UsageRecord(item, quantity, timestamp, c, win) ==
  [item |-> item, quantity |-> quantity, timestamp |-> timestamp,
   client_id |-> c, window |-> {u.id : u \in win}]

\* create_usage_record returns
MeterOk ==
  /\ sync.pc = "meter"
  /\ provider' = Append(provider,
       UsageRecord(sync.loaded[sync.cur].stripe_metered_subscription_item_id,
                   sync.units, sync.now, sync.cur, sync.window))
  /\ sync' = FinishClient([sync EXCEPT !.calls = @ + 1], sync.cur, sync.units)
  /\ UNCHANGED <<clients, eventLog, usage, clock, wh, hist, settings>>
  /\ UNCHANGED accountVars

\* the retry loop leaving one attempt too late
LastAttemptLate(attempt) == attempt = MaxAttempts

\* if attempt == 2: break
LastAttempt(attempt) == attempt = MaxAttempts - 1

\* an except clause that catches every provider error
RetryAll(kind) == TRUE

\* except RETRYABLE_STRIPE_ERRORS: the error classes are kept as the two
\* kinds the clause tells apart
Retryable(kind) == kind = "transient"

\* a backoff one step ahead of the attempt number
BackoffNext(attempt) == 2 ^ (attempt + 1)

\* sleep(2**attempt)
Backoff(attempt) == 2 ^ attempt

\* create_usage_record raises an error of the kind
MeterRaises(kind) ==
  /\ sync.pc = "meter"
  /\ sync' = IF ~Retryable(kind)
             THEN \* not caught: the error leaves record_meter_event
                  [sync EXCEPT !.pc = "failed", !.failed = {sync.cur},
                               !.calls = @ + 1, !.raised = kind]
             ELSE IF LastAttempt(sync.attempt)
             THEN \* raise last_error: the request ends without a commit
                  [sync EXCEPT !.pc = "failed", !.failed = {sync.cur},
                               !.calls = @ + 1, !.last_error = kind,
                               !.raised = kind]
             ELSE [sync EXCEPT !.attempt = @ + 1, !.calls = @ + 1,
                               !.last_error = kind,
                               !.slept = @ + Backoff(sync.attempt)]
  /\ UNCHANGED <<clients, eventLog, usage, clock, wh, provider, hist, settings>>
  /\ UNCHANGED accountVars

\* create_usage_record raises one of RETRYABLE_STRIPE_ERRORS
MeterTransient == MeterRaises("transient")

\* create_usage_record raises any other error
MeterPermanent == MeterRaises("permanent")

\* a commit that writes every column of the row as the pass loaded it
AdvanceMarkStale(row, loaded, now) == [loaded EXCEPT !.usage_synced_until = now]

\* the UPDATE of the commit: usage_synced_until is the one dirty column
AdvanceMark(row, loaded, now) == [row EXCEPT !.usage_synced_until = now]

\* if not payload.dry_run: db.commit(); return results
SyncCommit ==
  /\ sync.pc = "loop"
  /\ sync.todo = {}
  /\ clients' = IF ShouldCommit(sync.dry_run)
                THEN [c \in Clients |->
                        IF c \in sync.marked
                        THEN AdvanceMark(clients[c], sync.loaded[c], sync.now)
                        ELSE clients[c]]
                ELSE clients
  /\ sync' = [sync EXCEPT !.pc = "done"]
  /\ UNCHANGED <<eventLog, usage, clock, wh, provider, hist, settings>>
  /\ UNCHANGED accountVars

\* record_meter_event called on its own with any quantity
Quantities == {-1, 0, 3}

CallMeter(c, quantity) ==
  /\ sync.pc \in {"idle", "skipped", "failed", "loop"}
  /\ hist.passes < MaxPasses
  /\ Inputs < MaxInputs
  /\ LET s == [SyncIdle EXCEPT !.cur = c, !.units = quantity, !.now = clock,
                               !.loaded[c] = clients[c]]
     IN sync' =
          CASE record_meter_event(quantity, settings) = "skipped" ->
                 [s EXCEPT !.pc = "skipped"]
            [] record_meter_event(quantity, settings) = "RuntimeError" ->
                 [s EXCEPT !.pc = "failed", !.failed = {c},
                           !.raised = "RuntimeError"]
            [] OTHER -> [s EXCEPT !.pc = "meter"]
  /\ hist' = [hist EXCEPT !.passes = @ + 1]
  /\ UNCHANGED <<clients, eventLog, usage, clock, wh, provider, settings>>
  /\ UNCHANGED accountVars

\* ------------------------------------------------------------ entitlement
BILLABLE_ACTIVE_STATUSES == {"active", "trialing"}

\* the predicate with a period end equal to the current time still active
ActiveAtPeriodEnd(row, now) ==
  IF ~row.billing_enabled THEN FALSE
  ELSE IF row.subscription_status \notin BILLABLE_ACTIVE_STATUSES THEN FALSE
  ELSE IF row.subscription_current_period_end # NoTime
          /\ row.subscription_current_period_end < now THEN FALSE
  ELSE TRUE

\* _is_client_subscription_active, with datetime.now() as now
is_client_subscription_active(row, now) ==
  IF ~row.billing_enabled THEN FALSE
  ELSE IF row.subscription_status \notin BILLABLE_ACTIVE_STATUSES THEN FALSE
  ELSE IF row.subscription_current_period_end # NoTime
          /\ row.subscription_current_period_end <= now THEN FALSE
  ELSE TRUE

\* the subscription test of authenticate_api_key for a key of client c
CheckSubscription(c) ==
  /\ hist' = [hist EXCEPT !.auth[c] =
       [at |-> clock, active |-> is_client_subscription_active(clients[c], clock)]]
  /\ UNCHANGED <<clients, eventLog, usage, clock, wh, sync, provider, settings>>
  /\ UNCHANGED accountVars

\* ------------------------------------------------------------- environment
Max(a, b) == IF a >= b THEN a ELSE b

\* increment_usage
RecordUsage(c, units) ==
  /\ Cardinality(usage) < MaxUsage
  /\ Inputs < MaxInputs
  /\ usage' = usage \cup
       {[id |-> Cardinality(usage) + 1, client_id |-> c,
         units |-> Max(units, 1), created_at |-> clock]}
  /\ UNCHANGED <<clients, eventLog, clock, wh, sync, provider, hist, settings>>
  /\ UNCHANGED accountVars

Tick ==
  /\ clock < MaxClock
  /\ Inputs < MaxInputs
  /\ clock' = clock + 1
  /\ UNCHANGED <<clients, eventLog, usage, wh, sync, provider, hist, settings>>
  /\ UNCHANGED accountVars

\* --------------------------------------------------------- client accounts
\* observation: the answer of the latest client or transform request
Response(kind, token, code, pending_raw_key) ==
  [kind |-> kind, token |-> token, code |-> code,
   pending_raw_key |-> pending_raw_key]

NoResponse == Response(None, 0, 0, 0)

SessionTTL == 1    \* settings.client_session_ttl_seconds, in clock ticks
PendingTTL == 1    \* settings.client_pending_api_key_ttl_seconds, in ticks

NoToken == [signed |-> FALSE, sub |-> NoClient, jti |-> 0, exp |-> NoTime]

\* a token that was not signed with the secret
BadToken == [signed |-> FALSE, sub |-> 1, jti |-> 1, exp |-> 1 + MaxClock]

\* jwt.encode of the payload {sub, jti, exp}
encode(sub, jti, exp) == [signed |-> TRUE, sub |-> sub, jti |-> jti, exp |-> exp]

\* the tokens create_client_session_token has returned
IssuedTokens == {encode(s.client_id, s.jti, s.expires_at) : s \in sessions}

Tokens == {NoToken, BadToken} \cup IssuedTokens

\* jwt.decode: the payload, unless the signature or the exp claim fails
decode(token, now) == token.signed /\ token.exp > now

\* a validation that does not look at is_active
IgnoreActive(ss, token, now) ==
  IF token = NoToken THEN NoClient
  ELSE IF ~decode(token, now) THEN NoClient
  ELSE LET found == {s \in ss : s.jti = token.jti}
       IN IF found = {} THEN NoClient
          ELSE IF \E s \in found : s.expires_at <= now THEN NoClient
          ELSE ClientById(token.sub)

\* validate_client_jwt: the client of the token, or NoClient for a 401
validate_client_jwt(ss, token, now) ==
  IF token = NoToken THEN NoClient
  ELSE IF ~decode(token, now) THEN NoClient
  ELSE LET found == {s \in ss : s.jti = token.jti}
       IN IF found = {} THEN NoClient
          ELSE IF \E s \in found : ~s.is_active \/ s.expires_at <= now
            THEN NoClient
          ELSE ClientById(token.sub)

\* a login that leaves the earlier sessions of the client active
KeepPrior(ss, c) == ss

\* .filter(client_id == client.id, is_active).update({"is_active": False})
invalidate_prior(ss, c) ==
  {IF s.client_id = c THEN [s EXCEPT !.is_active = FALSE] ELSE s : s \in ss}

ClientSession(c, jti, expires_at) ==
  [client_id |-> c, jti |-> jti, expires_at |-> expires_at, is_active |-> TRUE]

\* create_client_session_token: the rows after its commit
create_client_session_token(ss, c, now) ==
  invalidate_prior(ss, c)
    \cup {ClientSession(c, Cardinality(ss) + 1, now + SessionTTL)}

KeyOf(id) == CHOOSE k \in apiKeys : k.id = id

\* the rows the query of _consume_pending_raw_key matches
Undelivered(c, now) ==
  {p \in pending :
     /\ KeyOf(p.api_key_id).client_id = c
     /\ p.delivered_at = NoTime
     /\ p.expires_at > now}

\* a query that also matches the delivered rows
FirstAnyPending(c, now) ==
  LET all == {p \in pending :
                KeyOf(p.api_key_id).client_id = c /\ p.expires_at > now}
  IN {p \in all : \A q \in all : q.created_at <= p.created_at}

\* .order_by(created_at.desc()).first(): a row with the latest created_at
FirstPending(c, now) ==
  {p \in Undelivered(c, now) :
     \A q \in Undelivered(c, now) : q.created_at <= p.created_at}

NoPending == 0

\* _consume_pending_raw_key for the row p (NoPending: the query is empty)
Consume(c, p, kind, token) ==
  /\ IF FirstPending(c, clock) = {} THEN p = NoPending
     ELSE p \in {q.id : q \in FirstPending(c, clock)}
  /\ pending' = {IF q.id = p THEN [q EXCEPT !.delivered_at = clock] ELSE q :
                   q \in pending}
  /\ hist' = [hist EXCEPT
       !.requests = @ + 1,
       !.returned = IF p = NoPending THEN @
                    ELSE Append(@, (CHOOSE q \in pending : q.id = p).raw_key),
       !.last = Response(kind, token, 200,
                  IF p = NoPending THEN NoPending
                  ELSE (CHOOSE q \in pending : q.id = p).raw_key)]

Refuse(kind, token) ==
  /\ hist' = [hist EXCEPT !.requests = @ + 1,
                          !.last = Response(kind, token, 401, NoPending)]
  /\ UNCHANGED <<pending, sessions>>

\* POST /clients/login; ok is the outcome of verify_password
login_client(c, ok, p) ==
  /\ Inputs < MaxInputs
  /\ IF ~ok THEN Refuse("login", NoToken) /\ p = NoPending
     ELSE /\ sessions' = create_client_session_token(sessions, c, clock)
          /\ Consume(c, p, "login",
                     encode(c, Cardinality(sessions) + 1, clock + SessionTTL))
  /\ UNCHANGED <<clients, usage, clock, services, apiKeys>>
  /\ UNCHANGED billingVars

\* POST /clients/logout
logout_client(token) ==
  /\ Inputs < MaxInputs
  /\ LET c == validate_client_jwt(sessions, token, clock)
     IN IF c = NoClient THEN Refuse("logout", token)
        ELSE /\ sessions' =
                  {IF s.client_id = c /\ s.jti = token.jti
                   THEN [s EXCEPT !.is_active = FALSE] ELSE s : s \in sessions}
             /\ hist' = [hist EXCEPT
                  !.requests = @ + 1,
                  !.last = Response("logout", token, 200, NoPending)]
             /\ UNCHANGED pending
  /\ UNCHANGED <<clients, usage, clock, services, apiKeys>>
  /\ UNCHANGED billingVars

\* GET /clients/me, a client-facing endpoint behind get_current_client
read_client(token) ==
  /\ Inputs < MaxInputs
  /\ LET c == validate_client_jwt(sessions, token, clock)
     IN IF c = NoClient THEN Refuse("me", token)
        ELSE /\ hist' = [hist EXCEPT
                  !.requests = @ + 1,
                  !.last = Response("me", token, 200, NoPending)]
             /\ UNCHANGED <<pending, sessions>>
  /\ UNCHANGED <<clients, usage, clock, services, apiKeys>>
  /\ UNCHANGED billingVars

\* GET /clients/me/api-keys
list_client_api_keys(token, p) ==
  /\ Inputs < MaxInputs
  /\ LET c == validate_client_jwt(sessions, token, clock)
     IN IF c = NoClient THEN Refuse("api-keys", token) /\ p = NoPending
        ELSE /\ Consume(c, p, "api-keys", token)
             /\ UNCHANGED sessions
  /\ UNCHANGED <<clients, usage, clock, services, apiKeys>>
  /\ UNCHANGED billingVars

\* sha256 of the raw key
hash_api_key(raw_key) == <<"sha256", raw_key>>

ApiKey(id, c, service_id, raw_key, active) ==
  [id |-> id, client_id |-> c, service_id |-> service_id,
   key_hash |-> hash_api_key(raw_key), is_active |-> active]

\* an API key of the client with the pending delivery of its raw key, as the
\* rows that test_api_keys_endpoint_returns_pending_raw inserts
CreatePending(c) ==
  /\ Inputs < MaxInputs
  /\ LET id == Cardinality(apiKeys) + 1
     IN /\ apiKeys' = apiKeys \cup {ApiKey(id, c, NoService, id, TRUE)}
        /\ pending' = pending \cup
             {[id |-> Cardinality(pending) + 1, api_key_id |-> id,
               raw_key |-> id, expires_at |-> clock + PendingTTL,
               delivered_at |-> NoTime, created_at |-> clock]}
  /\ UNCHANGED <<clients, usage, clock, hist, services, sessions>>
  /\ UNCHANGED billingVars

\* ------------------------------------------------------------ transform
NoKey == 0         \* a request without a bearer token
UnknownKey == 9    \* a bearer token that is the raw key of no row
TRANSFORM_SERVICE == "ABC-123"   \* service_code of the transform endpoint

ServiceById(id) == CHOOSE s \in services : s.id = id

\* an authentication without the subscription test
AuthenticateUnsubscribed(token, service_code, now) ==
  LET service == {s \in services : s.code = service_code /\ s.is_active}
      found == {k \in apiKeys :
                  k.key_hash = hash_api_key(token) /\ k.is_active}
  IN IF token = NoKey THEN "missing_or_invalid_auth_header"
     ELSE IF service = {} THEN "service_not_configured"
     ELSE IF found = {} THEN "invalid_api_key"
     ELSE LET api_key == CHOOSE k \in found : TRUE
              svc == CHOOSE s \in service : TRUE
          IN IF ~clients[api_key.client_id].is_active THEN "inactive_client"
             ELSE IF api_key.service_id # NoService
                     /\ api_key.service_id # svc.id
               THEN "api_key_not_allowed_for_service"
             ELSE IF api_key.service_id # NoService
                     /\ ~ServiceById(api_key.service_id).is_active
               THEN "inactive_service"
             ELSE None

\* authenticate_api_key: the error it returns, None when the key is accepted
authenticate_api_key(token, service_code, now) ==
  LET service == {s \in services : s.code = service_code /\ s.is_active}
      found == {k \in apiKeys :
                  k.key_hash = hash_api_key(token) /\ k.is_active}
  IN IF token = NoKey THEN "missing_or_invalid_auth_header"
     ELSE IF service = {} THEN "service_not_configured"
     ELSE IF found = {} THEN "invalid_api_key"
     ELSE LET api_key == CHOOSE k \in found : TRUE
              svc == CHOOSE s \in service : TRUE
          IN IF ~clients[api_key.client_id].is_active THEN "inactive_client"
             ELSE IF ~is_client_subscription_active(
                        clients[api_key.client_id], now)
               THEN "subscription_inactive"
             ELSE IF api_key.service_id # NoService
                     /\ api_key.service_id # svc.id
               THEN "api_key_not_allowed_for_service"
             ELSE IF api_key.service_id # NoService
                     /\ ~ServiceById(api_key.service_id).is_active
               THEN "inactive_service"
             ELSE None

\* increment_usage: the usage_events table after its commit
increment_usage(us, c, units, now) ==
  us \cup {[id |-> Cardinality(us) + 1, client_id |-> c,
            units |-> Max(units, 1), created_at |-> now]}

\* POST /transform with the bearer token
transform(token) ==
  /\ Inputs < MaxInputs
  /\ Cardinality(usage) < MaxUsage
  /\ LET auth_error == authenticate_api_key(token, TRANSFORM_SERVICE, clock)
     IN IF auth_error = "service_not_configured"
        THEN /\ hist' = [hist EXCEPT !.requests = @ + 1,
                  !.transform = [key |-> token, error |-> auth_error,
                                 code |-> 503]]
             /\ usage' = usage
        ELSE IF auth_error # None
        THEN /\ hist' = [hist EXCEPT !.requests = @ + 1,
                  !.transform = [key |-> token, error |-> auth_error,
                                 code |-> 401]]
             /\ usage' = usage
        ELSE /\ usage' = increment_usage(usage,
                  (CHOOSE k \in apiKeys :
                     k.key_hash = hash_api_key(token)).client_id, 1, clock)
             /\ hist' = [hist EXCEPT !.requests = @ + 1,
                  !.transform = [key |-> token, error |-> None,
                                 code |-> 200]]
  /\ UNCHANGED <<clients, clock>>
  /\ UNCHANGED accountVars
  /\ UNCHANGED billingVars

\* ------------------------------------------------------------ specification
NoHist ==
  [received |-> 0, passes |-> 0, runs |-> [e \in EventIds |-> 0],
   commits |-> [e \in EventIds |-> 0], meterCalls |-> {}, rows |-> {},
   requests |-> 0, returned |-> <<>>, last |-> NoResponse,
   transform |-> [key |-> NoKey, error |-> None, code |-> 0],
   auth |-> [c \in Clients |-> [at |-> NoTime, active |-> FALSE]]]

\* os.getenv of the two secrets, set (TRUE) or not set, and the default
\* service code, set as test_stripe_checkout_creates_api_key_and_pending sets
\* it
Settings ==
  [stripe_secret_key : BOOLEAN, stripe_webhook_secret : BOOLEAN,
   client_default_service_code : {"transform"}]

Service(id, code, active) == [id |-> id, code |-> code, is_active |-> active]

\* the row _ensure_service of the tests inserts
DefaultServices == {Service(1, "transform", TRUE)}

Init ==
  /\ clients = [c \in Clients |-> NewClient]
  /\ eventLog = {}
  /\ usage = {}
  /\ clock = 1
  /\ wh = [d \in Deliveries |-> Idle]
  /\ sync = SyncIdle
  /\ provider = <<>>
  /\ hist = NoHist
  /\ settings \in Settings
  /\ services = DefaultServices
  /\ apiKeys = {} /\ pending = {} /\ sessions = {}

Webhook(D, E) ==
  \E d \in D :
    \/ \E e \in E, sig \in Signatures : WhReceive(d, e, sig)
    \/ WhLookup(d)
    \/ WhInsert(d)
    \/ WhDispatch(d)
    \/ WhCommit(d)
    \/ WhExcept(d)
    \/ WhCrash(d)

Sync ==
  \/ \E c \in Clients \cup {NoClient}, dry \in BOOLEAN : SyncStart(c, dry)
  \/ \E c \in Clients : SyncClient(c)
  \/ MeterOk
  \/ MeterTransient
  \/ MeterPermanent
  \/ SyncCommit

Environment ==
  \/ \E c \in Clients, u \in UnitSizes : RecordUsage(c, u)
  \/ Tick

LedgerEvents == {2, 3, 6, 9}

Next == Webhook({1}, LedgerEvents) \/ Sync \/ Environment

Spec == Init /\ [][Next]_vars

\* The webhook endpoint alone, over the events of one subscription's life.
LifecycleEvents == 1..10

NextWebhook == Webhook(Deliveries, LifecycleEvents)

InitWebhook == Init /\ settings.stripe_secret_key

SpecWebhook == InitWebhook /\ [][NextWebhook]_vars

\* The synchronizer alone, over clients as events 2 and 9 leave them.
Subscribed(c) ==
  IF c = 1
  THEN Flush(NewClient, NewClient,
             handle_subscription_event([x \in Clients |-> NewClient], EventOf(2)).after)
  ELSE Flush(NewClient, NewClient,
             handle_subscription_event([x \in Clients |-> NewClient], EventOf(9)).after)

InitSync ==
  /\ clients \in {[c \in Clients |-> Subscribed(c)],
                  [c \in Clients |-> IF c = 1 THEN Subscribed(c) ELSE NewClient]}
  /\ eventLog = {}
  /\ usage = {}
  /\ clock = 1
  /\ wh = [d \in Deliveries |-> Idle]
  /\ sync = SyncIdle
  /\ provider = <<>>
  /\ hist = NoHist
  /\ settings \in {s \in Settings : s.stripe_webhook_secret}
  /\ services = DefaultServices
  /\ apiKeys = {} /\ pending = {} /\ sessions = {}

NextSync == Sync \/ Environment

SpecSync == InitSync /\ [][NextSync]_vars

\* The webhook endpoint over clients that hold provider ids, with the events
\* that tell the lookups of a client apart.
ResolveEvents == {4, 9} \cup (11..16)

InitResolve ==
  /\ InitSync
  /\ settings.stripe_secret_key

NextResolve == Webhook(Deliveries, ResolveEvents)

SpecResolve == InitResolve /\ [][NextResolve]_vars

\* The webhook endpoint over the same clients, with the checkout events.
CheckoutEvents == {7} \cup (17..20)

NextCheckout == Webhook(Deliveries, CheckoutEvents)

SpecCheckout == InitResolve /\ [][NextCheckout]_vars

\* record_meter_event alone, called with any quantity.
NextMeter ==
  \/ \E c \in Clients, q \in Quantities : CallMeter(c, q)
  \/ MeterOk
  \/ MeterTransient
  \/ MeterPermanent
  \/ Tick

SpecMeter == InitSync /\ [][NextMeter]_vars

\* every attempt of create_usage_record returns or raises
MeterFairness == WF_vars(MeterOk \/ MeterTransient \/ MeterPermanent)

SpecMeterFair == InitSync /\ [][NextMeter]_vars /\ MeterFairness

\* The client accounts alone: logins, logouts, requests and pending keys.
NextClients ==
  \/ \E c \in Clients, ok \in BOOLEAN, p \in 0..MaxInputs :
       login_client(c, ok, p)
  \/ \E token \in Tokens : logout_client(token)
  \/ \E token \in Tokens : read_client(token)
  \/ \E token \in Tokens, p \in 0..MaxInputs : list_client_api_keys(token, p)
  \/ \E c \in Clients : CreatePending(c)
  \/ Tick

InitClients ==
  /\ Init
  /\ settings.stripe_secret_key /\ settings.stripe_webhook_secret

SpecClients == InitClients /\ [][NextClients]_vars

\* The entitlement predicate alone, over every client record.
Statuses == {None, "active", "trialing", "past_due", "canceled"}

PeriodEnds == {NoTime, Epoch} \cup (1..MaxClock)

ClientRecords ==
  {[NewClient EXCEPT !.billing_enabled = b, !.subscription_status = s,
                     !.subscription_current_period_end = p] :
     b \in BOOLEAN, s \in Statuses, p \in PeriodEnds}

InitActive ==
  /\ clients \in [Clients -> ClientRecords]
  /\ eventLog = {}
  /\ usage = {}
  /\ clock = 1
  /\ wh = [d \in Deliveries |-> Idle]
  /\ sync = SyncIdle
  /\ provider = <<>>
  /\ hist = NoHist
  /\ settings \in {s \in Settings : s.stripe_secret_key /\ s.stripe_webhook_secret}
  /\ services = DefaultServices
  /\ apiKeys = {} /\ pending = {} /\ sessions = {}

NextActive == (\E c \in Clients : CheckSubscription(c)) \/ Tick

SpecActive == InitActive /\ [][NextActive]_vars

\* The transform endpoint alone: requests with any bearer token against the
\* key, service and client rows it reads.
TransformService == {{}, {Service(2, TRANSFORM_SERVICE, TRUE)},
                     {Service(2, TRANSFORM_SERVICE, FALSE)}}

KeyHolders ==
  {[Subscribed(1) EXCEPT !.is_active = a, !.billing_enabled = b,
                         !.subscription_status = s,
                         !.subscription_current_period_end = p] :
     a \in BOOLEAN, b \in BOOLEAN, s \in {"active", "past_due"},
     p \in {NoTime, 2}}

InitTransform ==
  /\ clients \in {[c \in Clients |-> IF c = 1 THEN r ELSE Subscribed(c)] :
                    r \in KeyHolders}
  /\ eventLog = {}
  /\ usage = {}
  /\ clock = 1
  /\ wh = [d \in Deliveries |-> Idle]
  /\ sync = SyncIdle
  /\ provider = <<>>
  /\ hist = NoHist
  /\ settings \in {s \in Settings : s.stripe_secret_key /\ s.stripe_webhook_secret}
  /\ services \in {DefaultServices \cup t : t \in TransformService}
  /\ apiKeys \in {{ApiKey(1, 1, sid, 1, a), ApiKey(2, 2, NoService, 2, TRUE)} :
                    sid \in {NoService, 1, 2}, a \in BOOLEAN}
  /\ pending = {}
  /\ sessions = {}

NextTransform ==
  \/ \E token \in {NoKey, 1, 2, UnknownKey} : transform(token)
  \/ Tick

SpecTransform == InitTransform /\ [][NextTransform]_vars

\* =================================================================== claims
RowsOf(e) == {r \in eventLog : r.event_id = e}
InFlight(d) == wh[d].pc \in {"lookup", "insert", "dispatch", "commit", "except"}
Mark(cl, c) == cl[c].usage_synced_until

\* C1: however often one notification is delivered, the event log holds one
\* row for its event id, its effects are committed at most once, and a
\* delivery that finds the row answers 'duplicate' and changes no client.
C1_Idempotent ==
  /\ [](\A e \in EventIds :
          /\ Cardinality(RowsOf(e)) <= 1
          /\ hist.commits[e] <= 1
          /\ (\E d \in Deliveries : wh[d].code = 200 /\ wh[d].event = e)
               => Cardinality(RowsOf(e)) = 1)
  /\ [][\A d \in Deliveries :
          (wh[d].pc = "lookup" /\ wh'[d].pc # "lookup" /\ wh'[d].pc # "crashed"
             /\ RowsOf(wh[d].event) # {})
            => /\ wh'[d].pc = "done"
               /\ wh'[d].code = 200
               /\ wh'[d].status = "duplicate"
               /\ clients' = clients
               /\ eventLog' = eventLog
               /\ hist' = hist]_vars

C1_Witness ==
  \E d \in Deliveries :
    /\ wh[d].status = "duplicate"
    /\ hist.commits[wh[d].event] = 1
    /\ hist.received = 2
    /\ clients[1].stripe_customer_id = "cus_A"

\* C2: of two deliveries of one event id handled concurrently, only one runs
\* the handler and the other ends as 'duplicate'.
C2_RaceResolves ==
  \A d1, d2 \in Deliveries :
    (d1 # d2 /\ wh[d1].pc = "done" /\ wh[d2].pc = "done"
       /\ wh[d1].event # 0 /\ wh[d1].event = wh[d2].event)
      => /\ hist.runs[wh[d1].event] <= 1
         /\ (wh[d1].status = "duplicate" \/ wh[d2].status = "duplicate")

\* C3: no usage unit is part of two quantities the provider accepted.
C3_ExactlyOnce ==
  \A i, j \in DOMAIN provider :
    i # j => provider[i].window \cap provider[j].window = {}

\* C4: when the submission of one tenant fails, every other selected tenant
\* of the pass still has its high-water mark advanced to the pass's now.
C4_FailureIsolated ==
  sync.pc = "failed" =>
    \A c \in sync.selected \ sync.failed : Mark(clients, c) = sync.now

\* C5: a delivery whose handler raises writes no client column, leaves its
\* event log row 'failed' with an error detail, and answers 500.
C5_FailedRollsBack ==
  [][\A d \in Deliveries :
       /\ (wh[d].pc # "except" /\ wh'[d].pc = "except") => clients' = clients
       /\ (wh[d].pc = "except" /\ wh'[d].pc = "done")
            => /\ clients' = clients
               /\ wh'[d].code = 500
               /\ \E r \in eventLog' :
                    /\ r.event_id = wh[d].event
                    /\ r.status = "failed"
                    /\ r.error_message]_vars

C5_Witness ==
  \E d \in Deliveries :
    /\ wh[d].pc = "done" /\ wh[d].code = 500 /\ wh[d].event = 6
    /\ \E r \in eventLog : r.event_id = 6 /\ r.status = "failed"
    /\ clients[1] = NewClient

\* C6: after a crash before the acknowledgment, the redelivery of the event
\* leaves its effects applied (or its handler failed) once nothing is in
\* flight for it.
C6_CrashSafe ==
  \A d \in Deliveries :
    (wh[d].pc = "done" /\ wh[d].status = "duplicate"
       /\ \A o \in Deliveries : InFlight(o) => wh[o].event # wh[d].event)
      => \/ hist.commits[wh[d].event] >= 1
         \/ \E r \in RowsOf(wh[d].event) : r.status = "failed"

\* C7: a dry run changes no high-water mark and makes no submission, and its
\* unit counts are those of the non-dry pass that follows it with the same
\* now and the same usage rows.
C7_DryRunPure ==
  /\ [][(sync.dry_run /\ sync.pc \in {"loop", "meter"})
          => /\ \A c \in Clients : Mark(clients', c) = Mark(clients, c)
             /\ provider' = provider
             /\ hist'.meterCalls = hist.meterCalls
             /\ sync'.pc # "meter"]_vars
  /\ [](\A r, q \in hist.rows :
          (r.dry_run /\ ~q.dry_run /\ q.pass = r.pass + 1
             /\ q.client_id = r.client_id /\ q.now = r.now /\ q.seen = r.seen)
            => q.units = r.units)

C7_Witness ==
  /\ sync.pc = "done" /\ ~sync.dry_run
  /\ \E r, q \in hist.rows :
       /\ r.dry_run /\ ~q.dry_run /\ q.pass = r.pass + 1
       /\ q.client_id = r.client_id /\ q.now = r.now /\ q.seen = r.seen
       /\ q.units = 8
       /\ Len(provider) = 1

\* C8: every quantity handed to the usage submission is positive, and a
\* computed count of zero makes no call.
C8_PositiveQuantity ==
  /\ \A m \in hist.meterCalls : m.quantity > 0
  /\ \A i \in DOMAIN provider : provider[i].quantity > 0
  /\ \A r \in hist.rows :
       r.units = 0 =>
         ~\E m \in hist.meterCalls : m.pass = r.pass /\ m.client_id = r.client_id

C8_Witness ==
  /\ sync.pc = "done" /\ ~sync.dry_run
  /\ \E r \in hist.rows : r.units = 0 /\ ~r.dry_run /\ r.pass = hist.passes
  /\ \E m \in hist.meterCalls : m.pass = hist.passes

\* C9: a high-water mark never decreases, and it changes only in the commit
\* of a non-dry pass in which no submission failed.
C9_MarkMonotone ==
  [][\A c \in Clients :
       Mark(clients', c) # Mark(clients, c)
         => /\ Mark(clients', c) > Mark(clients, c)
            /\ sync.pc = "loop" /\ sync'.pc = "done"
            /\ ~sync.dry_run /\ sync.failed = {}
            /\ Mark(clients', c) = sync.now]_vars

C9_Witness ==
  /\ \E c \in Clients : Mark(clients, c) = 2
  /\ hist.received > 0
  /\ hist.passes = 2

\* C10: the quantity a non-dry pass submits for a tenant is the sum of the
\* tenant's usage units later than its high-water mark (the epoch when it
\* has none) and not later than the pass's now; a zero sum submits nothing.
ExpectedUnits(c, now) ==
  LET lo == IF Mark(clients, c) = NoTime THEN 0 ELSE Mark(clients, c)
  IN SumUnits({u \in usage : u.client_id = c /\ lo < u.created_at
                               /\ u.created_at <= now})

C10_WindowSum ==
  [][/\ \A c \in Clients :
          (sync.pc = "loop" /\ c \in sync.todo /\ c \notin sync'.todo)
            => /\ \E r \in sync'.results :
                    /\ r.client_id = c
                    /\ r.synced_units = ExpectedUnits(c, sync.now)
               /\ Len(provider') = Len(provider)
               /\ ~sync.dry_run => ExpectedUnits(c, sync.now) = 0
     /\ (sync.pc = "loop" /\ sync'.pc = "meter")
          => /\ sync'.units = ExpectedUnits(sync'.cur, sync.now)
             /\ sync'.units > 0
             /\ ~sync.dry_run
     /\ (sync.pc = "meter" /\ Len(provider') # Len(provider))
          => /\ Len(provider') = Len(provider) + 1
             /\ provider'[Len(provider')].quantity = sync.units
             /\ provider'[Len(provider')].client_id = sync.cur
             /\ provider'[Len(provider')].timestamp = sync.now]_vars

C10_Witness ==
  /\ sync.pc = "done" /\ ~sync.dry_run /\ hist.passes = 2
  /\ Len(provider) = 1
  /\ provider[1].quantity = 8
  /\ \E r \in sync.results : r.client_id = provider[1].client_id /\ r.synced_units = 0

\* C11: a non-dry pass that completes leaves the high-water mark of every
\* selected tenant at the pass's now, also of a tenant with a zero sum.
C11_AllAdvanced ==
  (sync.pc = "done" /\ ~sync.dry_run)
    => \A c \in sync.selected : Mark(clients, c) = sync.now

C11_Witness ==
  /\ sync.pc = "done" /\ ~sync.dry_run
  /\ Cardinality(sync.selected) = 2
  /\ \E r \in sync.results : r.synced_units = 0
  /\ Len(provider) = 1
  /\ \A c \in Clients : Mark(clients, c) = sync.now

\* C12: the commit of a handled customer.subscription.deleted event leaves
\* the resolved client's subscription_status 'canceled', whatever status the
\* payload carries.
C12_DeletedCancels ==
  [][\A d \in Deliveries :
       (wh[d].pc = "commit" /\ wh'[d].pc = "done"
          /\ EventOf(wh[d].event).type = "customer.subscription.deleted"
          /\ wh[d].out.target # NoClient)
         => /\ wh'[d].status = "processed"
            /\ clients'[wh[d].out.target].subscription_status = "canceled"]_vars

C12_Witness ==
  /\ \E r \in eventLog : r.event_id = 3 /\ r.status = "processed"
  /\ EventOf(3).status = "active"
  /\ clients[1].subscription_status = "canceled"
  /\ clients[1].stripe_subscription_id = "sub_A"

\* C13: once the checkout-completed event 1 and the subscription-updated
\* event 2 of the same subscription have both been handled, in either
\* order, client 1 has the status event 2 carries.
C13_OrderIndependent ==
  ({r.event_id : r \in eventLog} = {1, 2}
     /\ \A r \in eventLog : r.processed_at # NoTime /\ r.status # "failed")
    => clients[1].subscription_status = EventOf(2).status

C13_Witness ==
  /\ \E r \in eventLog : r.event_id = 2 /\ r.id = 1 /\ r.status = "processed"
  /\ \E r \in eventLog : r.event_id = 1 /\ r.id = 2 /\ r.status = "processed"
  /\ clients[1].subscription_status = "active"
  /\ clients[1].stripe_customer_id = "cus_A"

\* C14: the commit of a subscription-updated event, with no other write to
\* the client since the handler read it, sets the metered line-item id to
\* the id of the first item with the metered price, and to NULL when no item
\* has it. As first stated (C14_ItemKept) the id is left as it was when no
\* item has the metered price.
MeteredIdx(p) == {j \in DOMAIN p.items : p.items[j].price = METERED_PRICE}

UpdatedCommit(d) ==
  /\ wh[d].pc = "commit" /\ wh'[d].pc = "done"
  /\ EventOf(wh[d].event).type = "customer.subscription.updated"
  /\ wh[d].out.target # NoClient
  /\ clients[wh[d].out.target] = wh[d].loaded

ItemOf(cl, d) == cl[wh[d].out.target].stripe_metered_subscription_item_id

C14_ItemKept ==
  [][\A d \in Deliveries :
       UpdatedCommit(d) =>
         LET p == EventOf(wh[d].event)
         IN IF MeteredIdx(p) # {}
            THEN ItemOf(clients', d) = p.items[MinOf(MeteredIdx(p))].id
            ELSE ItemOf(clients', d) = ItemOf(clients, d)]_vars

C14_ItemRederived ==
  [][\A d \in Deliveries :
       UpdatedCommit(d) =>
         LET p == EventOf(wh[d].event)
         IN IF MeteredIdx(p) # {}
            THEN ItemOf(clients', d) = p.items[MinOf(MeteredIdx(p))].id
            ELSE ItemOf(clients', d) = None]_vars

C14_Witness ==
  /\ \E r \in eventLog : r.event_id = 2 /\ r.id = 1 /\ r.status = "processed"
  /\ \E r \in eventLog : r.event_id = 10 /\ r.id = 2 /\ r.status = "processed"
  /\ clients[1].stripe_metered_subscription_item_id = None
  /\ clients[1].stripe_subscription_id = "sub_A"

\* C15: the active-subscription predicate is true exactly when billing is
\* enabled, the status is 'active' or 'trialing', and the period end is
\* unset or later than the current time.
C15_ActivePredicate ==
  \A c \in Clients :
    hist.auth[c].at # NoTime =>
      (hist.auth[c].active <=>
         /\ clients[c].billing_enabled = TRUE
         /\ clients[c].subscription_status \in {"active", "trialing"}
         /\ \/ clients[c].subscription_current_period_end = NoTime
            \/ clients[c].subscription_current_period_end > hist.auth[c].at)

C15_Witness ==
  /\ hist.auth[1].at = 2 /\ ~hist.auth[1].active
  /\ clients[1].billing_enabled /\ clients[1].subscription_status = "trialing"
  /\ clients[1].subscription_current_period_end = 2
  /\ hist.auth[2].at = 1 /\ hist.auth[2].active
  /\ clients[2].subscription_current_period_end = 2

\* C16: a delivery with a malformed body or a signature that does not verify
\* is answered 400 at once, and it adds no event log row and changes no
\* client.
C16_Rejected ==
  /\ [](\A d \in Deliveries :
          wh[d].sig \in {"forged", "malformed"}
            => wh[d].pc = "done" /\ wh[d].code = 400 /\ wh[d].row = 0)
  /\ [][\A d \in Deliveries :
          (wh'[d] # wh[d] /\ wh'[d].sig \in {"forged", "malformed"})
            => eventLog' = eventLog /\ clients' = clients]_vars

C16_Witness ==
  /\ wh[1].sig = "forged" /\ wh[1].code = 400
  /\ wh[2].sig = "malformed" /\ wh[2].code = 400
  /\ eventLog = {}
  /\ hist.received = 2

\* C17: a row of the event log has status 'received' from its insert until
\* the handler has finished and the row is marked.
C17_InsertedReceived ==
  \A r \in eventLog : r.processed_at = NoTime => r.status = "received"

\* C18: every status change of a row goes from 'received' to processed,
\* ignored or failed, so a row in one of these three never changes status.
C18_OneTransition ==
  [][\A r \in eventLog : \A q \in eventLog' :
       (q.id = r.id /\ q.status # r.status)
         => /\ r.status = "received"
            /\ q.status \in {"processed", "ignored", "failed"}]_vars

\* C19: once the row of an event id is 'failed', the row stays as it is, the
\* handler is not run for the event again, no effect of it is committed,
\* and a delivery that looks the event up answers 'duplicate' without
\* changing a client.
FailedEvent(e) == \E r \in eventLog : r.event_id = e /\ r.status = "failed"

C19_FailedStays ==
  [][\A e \in EventIds :
       FailedEvent(e)
         => /\ {r \in eventLog' : r.event_id = e} = RowsOf(e)
            /\ hist'.runs[e] = hist.runs[e]
            /\ hist.commits[e] = 0 /\ hist'.commits[e] = 0
            /\ \A d \in Deliveries :
                 (wh[d].event = e /\ wh[d].pc = "lookup"
                    /\ wh'[d].pc \notin {"lookup", "crashed"})
                   => /\ wh'[d].pc = "done" /\ wh'[d].code = 200
                      /\ wh'[d].status = "duplicate"
                      /\ clients' = clients]_vars

C19_Witness ==
  /\ FailedEvent(6)
  /\ hist.runs[6] = 1
  /\ hist.received = 2
  /\ \E d \in Deliveries : wh[d].event = 6 /\ wh[d].status = "duplicate"
  /\ clients[1] = NewClient

\* C20: one call of record_meter_event makes at most three provider calls;
\* it tries again only after a transient error, returns at the first
\* success, and raises the transient error after the third failure.
C20_ThreeAttempts ==
  /\ [](sync.calls <= 3)
  /\ [][(sync.pc = "meter" /\ sync' # sync) =>
          /\ sync'.pc = "meter"
               => /\ sync'.last_error = "transient"
                  /\ sync'.calls = sync.calls + 1
                  /\ sync'.calls < 3
                  /\ provider' = provider
          /\ Len(provider') # Len(provider)
               => /\ sync'.pc = "loop"
                  /\ sync'.calls = sync.calls + 1
                  /\ sync'.raised = None
          /\ (sync'.pc = "failed" /\ sync'.raised = "transient")
               => /\ sync'.calls = 3
                  /\ sync.last_error = "transient"
                  /\ provider' = provider]_vars

C20_Witness ==
  /\ sync.pc = "failed" /\ sync.raised = "transient"
  /\ sync.calls = 3 /\ sync.units > 0
  /\ provider = <<>>

\* C21: a provider error that is not of a transient kind leaves
\* record_meter_event with the call that raised it, on whichever attempt: the
\* call is counted, nothing is slept, no attempt follows, and such an error is
\* never kept as the last error of a retry.
C21_PermanentAtOnce ==
  /\ [](sync.last_error # "permanent")
  /\ [](sync.raised = "permanent" => sync.pc = "failed")
  /\ [][(sync.pc = "meter" /\ sync'.raised = "permanent")
          => /\ sync'.pc = "failed"
             /\ sync'.calls = sync.calls + 1
             /\ sync'.slept = sync.slept
             /\ sync'.attempt = sync.attempt
             /\ provider' = provider /\ clients' = clients]_vars
  /\ [][(sync.pc = "failed" /\ sync'.pc = "failed") => sync' = sync]_vars

C21_Witness ==
  /\ sync.pc = "failed" /\ sync.raised = "permanent"
  /\ sync.calls = 2 /\ sync.slept = 1 /\ sync.last_error = "transient"

\* C22: record_meter_event called with a quantity <= 0 returns its 'skipped'
\* result at once, with the secret key configured or not: it raises nothing,
\* makes no provider call and the provider receives nothing.
C22_SkippedQuantity ==
  /\ [][(sync' # sync /\ sync'.attempt = 0 /\ sync'.calls = 0
           /\ sync'.pc # "idle" /\ sync'.units <= 0)
          => /\ sync'.pc = "skipped"
             /\ sync'.raised = None
             /\ provider' = provider]_vars
  /\ [](sync.pc = "skipped"
          => sync.units <= 0 /\ sync.calls = 0 /\ sync.raised = None)
  /\ [][sync.pc = "skipped" => provider' = provider]_vars

C22_Witness ==
  /\ sync.pc = "skipped" /\ sync.units = 0
  /\ ~settings.stripe_secret_key
  /\ hist.passes = 2 /\ provider = <<>>

\* The client the lookups of a subscription event resolve, restated: by
\* subscription id, else by customer id, else by the metadata's client id.
SubscriptionTypes ==
  {"customer.subscription.created", "customer.subscription.updated",
   "customer.subscription.deleted"}

Holders(cl, field, value) ==
  {c \in Clients : value # None /\ cl[c][field] = value}

ByIds(cl, p) ==
  IF Holders(cl, "stripe_subscription_id", p.subscription) # {}
  THEN MinOf(Holders(cl, "stripe_subscription_id", p.subscription))
  ELSE IF Holders(cl, "stripe_customer_id", p.customer) # {}
  THEN MinOf(Holders(cl, "stripe_customer_id", p.customer))
  ELSE NoClient

FirstMatch(cl, p) ==
  IF ByIds(cl, p) # NoClient THEN ByIds(cl, p)
  ELSE IF p.metadata_client_id \in Clients THEN p.metadata_client_id
  ELSE NoClient

Dispatched(d) ==
  /\ wh[d].pc = "dispatch"
  /\ wh'[d].pc \in {"commit", "except"}

Committing(d) ==
  /\ wh[d].pc = "commit"
  /\ wh'[d].pc \in {"done", "except"}

\* the client found by subscription id while another client holds the
\* customer id of the payload
CustomerHeldByOther(d) ==
  LET p == EventOf(wh[d].event)
  IN /\ p.type \in SubscriptionTypes
     /\ wh[d].out.target # NoClient
     /\ clients[wh[d].out.target].stripe_subscription_id = p.subscription
     /\ \E b \in Clients \ {wh[d].out.target} :
          clients[b].stripe_customer_id = p.customer

\* C23 as stated: when the subscription id matches client A and the customer
\* id matches another client B, the delivery updates A and only A.
C23_OnlyFirstUpdated ==
  [][\A d \in Deliveries :
       (Committing(d) /\ CustomerHeldByOther(d))
         => /\ clients'[wh[d].out.target].stripe_customer_id
                 = EventOf(wh[d].event).customer
            /\ \A c \in Clients \ {wh[d].out.target} :
                 clients'[c] = clients[c]]_vars

\* C23: a subscription event resolves the client by subscription id, else by
\* customer id, else by the metadata's client id; its commit writes no other
\* client; an event that resolves no client is not handled and changes
\* nothing; and when the client found by subscription id would take a customer
\* id that another client holds, the unique index rejects the write, the
\* delivery fails and no client changes.
C23_FirstMatch ==
  /\ [][\A d \in Deliveries :
          (Dispatched(d) /\ EventOf(wh[d].event).type \in SubscriptionTypes)
            => /\ wh'[d].out.target = FirstMatch(clients, EventOf(wh[d].event))
               /\ (wh'[d].out.target = NoClient => ~wh'[d].out.handled)]_vars
  /\ [][\A d \in Deliveries :
          (Committing(d) /\ EventOf(wh[d].event).type \in SubscriptionTypes)
            => /\ \A c \in Clients \ {wh[d].out.target} :
                    clients'[c] = clients[c]
               /\ (wh[d].out.target = NoClient
                     => wh'[d].status = "ignored" /\ clients' = clients)
               /\ (CustomerHeldByOther(d)
                     => wh'[d].pc = "except" /\ clients' = clients)]_vars
  /\ [][\A d \in Deliveries :
          (wh[d].pc = "except" /\ wh'[d].pc = "done")
            => clients' = clients /\ wh'[d].code = 500]_vars

C23_Witness ==
  /\ wh[1].pc = "done" /\ wh[1].event = 11 /\ wh[1].code = 500
  /\ \E r \in eventLog : r.event_id = 11 /\ r.status = "failed"
  /\ clients[1].stripe_customer_id = "cus_A"
  /\ clients[2].stripe_customer_id = "cus_B"
  /\ wh[2].pc = "done" /\ wh[2].event = 12 /\ wh[2].status = "processed"
  /\ clients[2].stripe_subscription_id = "sub_C"

\* C24: an invoice.paid event resolves its client by subscription id, else by
\* customer id, and never by the metadata; an event that resolves no client
\* is not handled and changes nothing; the commit changes no other client and
\* no field but subscription_status, and on the row as the handler loaded it
\* the status becomes 'active' (invoice.payment_failed: 'past_due').
InvoiceStatus(type) ==
  IF type = "invoice.paid" THEN "active" ELSE "past_due"

InvoiceTypes == {"invoice.paid", "invoice.payment_failed"}

RowStatus(log, d) == {r.status : r \in {x \in log : x.id = wh[d].row}}

\* C25: an invoice.finalized event is always handled: its handler returns
\* True without loading a client, and the commit that follows marks the row
\* 'processed', answers 200 with status 'processed' and changes no client.
C25_FinalizedProcessed ==
  /\ [][\A d \in Deliveries :
          (Dispatched(d) /\ EventOf(wh[d].event).type = "invoice.finalized")
            => /\ wh'[d].pc = "commit"
               /\ wh'[d].out.handled
               /\ wh'[d].out.target = NoClient]_vars
  /\ [][\A d \in Deliveries :
          (Committing(d) /\ EventOf(wh[d].event).type = "invoice.finalized")
            => /\ wh'[d].pc = "done"
               /\ wh'[d].code = 200 /\ wh'[d].status = "processed"
               /\ RowStatus(eventLog', d) = {"processed"}
               /\ clients' = clients]_vars
  /\ [](\A r \in eventLog :
          (r.event_type = "invoice.finalized" /\ r.processed_at # NoTime)
            => r.status = "processed")

C25_Witness ==
  /\ wh[1].pc = "done" /\ wh[1].event = 2 /\ wh[1].status = "processed"
  /\ wh[2].pc = "done" /\ wh[2].event = 5 /\ wh[2].status = "processed"
  /\ \E r \in eventLog : r.event_id = 5 /\ r.status = "processed"
  /\ clients[1] = Subscribed(1)

\* C26: a validly signed event of a type outside the dispatch table is not
\* an error: the handler returns False without raising, the row ends
\* 'ignored', the answer is 200 with status 'ignored' and no client changes.
DispatchTable ==
  SubscriptionTypes \cup InvoiceTypes
    \cup {"checkout.session.completed", "invoice.finalized"}

C26_UnknownIgnored ==
  /\ [][\A d \in Deliveries :
          (Dispatched(d) /\ EventOf(wh[d].event).type \notin DispatchTable)
            => /\ wh'[d].pc = "commit"
               /\ ~wh'[d].out.handled /\ ~wh'[d].out.raised
               /\ wh'[d].out.target = NoClient]_vars
  /\ [][\A d \in Deliveries :
          (Committing(d) /\ EventOf(wh[d].event).type \notin DispatchTable)
            => /\ wh'[d].pc = "done"
               /\ wh'[d].code = 200 /\ wh'[d].status = "ignored"
               /\ RowStatus(eventLog', d) = {"ignored"}
               /\ clients' = clients]_vars
  /\ [](\A r \in eventLog :
          r.event_type \notin DispatchTable => r.status = "ignored")

C26_Witness ==
  /\ wh[1].pc = "done" /\ wh[1].event = 1 /\ wh[1].status = "processed"
  /\ wh[2].pc = "done" /\ wh[2].event = 8 /\ wh[2].sig = "valid"
  /\ wh[2].code = 200 /\ wh[2].status = "ignored"
  /\ \E r \in eventLog :
       r.event_id = 8 /\ r.status = "ignored" /\ r.processed_at # NoTime
  /\ clients[1].stripe_customer_id = "cus_A"

\* C27: every answered delivery has code 200, 400 or 500: 200 with status
\* duplicate, processed or ignored; 400 exactly for a body or signature that
\* does not verify; 500 exactly when the webhook secret is not configured or
\* the handling of the delivery's own row raised and marked it 'failed'.
C27_AnswerCodes ==
  \A d \in Deliveries :
    wh[d].pc = "done"
      => /\ wh[d].code \in {200, 400, 500}
         /\ wh[d].code = 200
              <=> wh[d].status \in {"duplicate", "processed", "ignored"}
         /\ wh[d].code = 400 <=> wh[d].sig \in {"forged", "malformed"}
         /\ wh[d].code = 500
              <=> \/ ~settings.stripe_webhook_secret
                  \/ RowStatus(eventLog, d) = {"failed"}

\* C28: a delivery refused for its body or signature (400) or because the
\* webhook secret is not configured (500) is answered by the step that
\* receives it, and that step creates and modifies no event log row; without
\* the secret the event log never changes at all.
Received(d) ==
  /\ wh[d].pc \in {"idle", "done", "crashed"}
  /\ wh'[d] # wh[d]

C28_LogUntouched ==
  /\ [][\A d \in Deliveries :
          (Received(d)
             /\ (~settings.stripe_webhook_secret
                   \/ wh'[d].sig \in {"forged", "malformed"}))
            => /\ wh'[d].pc = "done"
               /\ wh'[d].code
                    = IF settings.stripe_webhook_secret THEN 400 ELSE 500
               /\ wh'[d].row = 0
               /\ eventLog' = eventLog]_vars
  /\ [][~settings.stripe_webhook_secret => eventLog' = eventLog]_vars
  /\ [](\A d \in Deliveries :
          (wh[d].pc = "done" /\ wh[d].event = 0) => wh[d].row = 0)

C28_Witness ==
  /\ ~settings.stripe_webhook_secret
  /\ hist.received = 2
  /\ wh[1].pc = "done" /\ wh[1].code = 500
  /\ wh[2].pc = "done" /\ wh[2].code = 500
  /\ eventLog = {}

\* C29: a pass selects exactly the clients that, when it starts, have a
\* subscription id, a metered item id and status active or trialing (the one
\* client of the filter when a filter is given); only a selected client's
\* usage_synced_until ever changes, and every call of record_meter_event and
\* every record the provider accepts is for a selected client.
SelectedAtStart(cl, client_id) ==
  {c \in Clients :
     /\ cl[c].stripe_subscription_id # None
     /\ cl[c].stripe_metered_subscription_item_id # None
     /\ cl[c].subscription_status \in {"active", "trialing"}
     /\ client_id \in {NoClient, c}}

C29_OnlySelected ==
  /\ [][hist'.passes # hist.passes
          => sync'.selected = SelectedAtStart(clients, sync'.client_id)]_vars
  /\ [][\A c \in Clients :
          Mark(clients', c) # Mark(clients, c)
            => c \in sync.selected /\ sync'.selected = sync.selected]_vars
  /\ [][/\ \A r \in hist'.meterCalls \ hist.meterCalls :
             r.client_id \in sync.selected
        /\ provider' # provider
             => /\ Len(provider') = Len(provider) + 1
                /\ provider'[Len(provider')].client_id \in sync.selected]_vars

C29_Witness ==
  /\ sync.pc = "done" /\ ~sync.dry_run /\ sync.client_id = NoClient
  /\ sync.selected = {1}
  /\ Mark(clients, 1) = sync.now /\ Len(provider) = 1
  /\ Mark(clients, 2) = NoTime
  /\ \E u \in usage : u.client_id = 2 /\ u.created_at <= sync.now

\* C30: no step of a webhook delivery changes a client's usage_synced_until,
\* and no step of sync_usage changes a client's subscription status, period
\* end, customer id, subscription id or metered item id.
SubscriptionFields ==
  {"subscription_status", "subscription_current_period_end",
   "stripe_customer_id", "stripe_subscription_id",
   "stripe_metered_subscription_item_id"}

C30_SeparateFields ==
  /\ [][wh' # wh
          => \A c \in Clients : Mark(clients', c) = Mark(clients, c)]_vars
  /\ [][sync' # sync
          => \A c \in Clients : \A f \in SubscriptionFields :
               clients'[c][f] = clients[c][f]]_vars

C30_Witness ==
  /\ sync.pc = "done" /\ 1 \in sync.marked
  /\ Mark(clients, 1) = sync.now
  /\ sync.loaded[1].subscription_status = "active"
  /\ clients[1].subscription_status = "canceled"
  /\ wh[1].pc = "done" /\ wh[1].event = 3 /\ wh[1].status = "processed"

\* C31: when a checkout.session.completed event for an existing client has
\* been processed while a default service code is configured, the client has
\* an API key for that service together with a pending delivery that holds the
\* raw key and is not marked delivered.
C31_CheckoutCreatesKey ==
  \A r \in eventLog :
    LET p == EventOf(r.event_id)
        c == IF p.client_reference_id # NoClient THEN p.client_reference_id
             ELSE p.metadata_client_id
    IN (/\ r.event_type = "checkout.session.completed"
        /\ r.status = "processed"
        /\ c \in Clients
        /\ settings.client_default_service_code # None)
         => \E k \in apiKeys, s \in services, d \in pending :
              /\ k.client_id = c
              /\ s.code = settings.client_default_service_code
              /\ k.service_id = s.id
              /\ d.api_key_id = k.id
              /\ d.raw_key # None
              /\ d.delivered_at = NoTime

\* the pending deliveries of client c that are undelivered and unexpired
PendingOf(c) ==
  {p \in pending :
     /\ \E k \in apiKeys : k.id = p.api_key_id /\ k.client_id = c
     /\ p.delivered_at = NoTime
     /\ p.expires_at > clock}

\* a login or list-api-keys call of client c that was answered 200
Served(c) ==
  /\ hist'.requests = hist.requests + 1
  /\ hist'.last.kind \in {"login", "api-keys"}
  /\ hist'.last.code = 200
  /\ hist'.last.token.sub = c

\* C32 as stated: every undelivered, unexpired pending raw key of a client is
\* returned and marked delivered by the client's next login or list call.
C32_NextCallReturns ==
  [][\A c \in Clients :
       Served(c)
         => \A p \in PendingOf(c) :
              /\ hist'.last.pending_raw_key = p.raw_key
              /\ \E q \in pending' : q.id = p.id /\ q.delivered_at = clock]_vars

\* C32: a login or list call of a client returns the raw key of the client's
\* most recently created undelivered, unexpired pending delivery and marks
\* that one row delivered; every other row is left as it is, so an older
\* pending key waits for a later call; a call with no such row returns no
\* key; and over all calls no raw key is returned twice.
C32_PendingOnce ==
  /\ [][\A c \in Clients :
          Served(c)
            => IF PendingOf(c) = {}
               THEN hist'.last.pending_raw_key = NoPending /\ pending' = pending
               ELSE \E p \in PendingOf(c) :
                      /\ \A q \in PendingOf(c) : q.created_at <= p.created_at
                      /\ hist'.last.pending_raw_key = p.raw_key
                      /\ pending' = (pending \ {p})
                            \cup {[p EXCEPT !.delivered_at = clock]}]_vars
  /\ [](\A i, j \in DOMAIN hist.returned :
          i # j => hist.returned[i] # hist.returned[j])
  /\ [][\A p \in pending :
          p.delivered_at # NoTime => p \in pending']_vars

C32_Witness ==
  /\ Len(hist.returned) = 2
  /\ hist.last.kind = "api-keys" /\ hist.last.code = 200
  /\ hist.last.pending_raw_key # NoPending
  /\ \A p \in pending : p.delivered_at # NoTime
  /\ \A p \in pending : KeyOf(p.api_key_id).client_id = 1
  /\ Cardinality(pending) = 2

\* the session of a token is stored, active and not expired
LiveSession(token) ==
  \E s \in sessions :
    s.jti = token.jti /\ s.is_active /\ s.expires_at > clock

\* a request to an endpoint behind get_current_client
Requested ==
  /\ hist'.requests = hist.requests + 1
  /\ hist'.last.kind \in {"me", "logout", "api-keys"}

\* C33: a client-facing endpoint answers 200 exactly for a signed token
\* whose session is stored, active and unexpired, and 401 otherwise (so 401
\* without a token); the token a login returns is accepted at once; a logout
\* deactivates the session of its token, and a deactivated session never
\* becomes active again, so the token is refused from then on.
C33_SessionGate ==
  /\ [][Requested
          => /\ hist'.last.code \in {200, 401}
             /\ hist'.last.code = 200
                  <=> (hist'.last.token.signed /\ LiveSession(hist'.last.token))
             /\ hist'.last.token = NoToken => hist'.last.code = 401]_vars
  /\ [][(hist'.requests = hist.requests + 1
           /\ hist'.last.kind = "login" /\ hist'.last.code = 200)
          => validate_client_jwt(sessions', hist'.last.token, clock)
               = hist'.last.token.sub]_vars
  /\ [][(Requested /\ hist'.last.kind = "logout" /\ hist'.last.code = 200)
          => \A s \in sessions' :
               s.jti = hist'.last.token.jti => ~s.is_active]_vars
  /\ [][\A s \in sessions : ~s.is_active => s \in sessions']_vars

C33_Witness ==
  /\ hist.requests = 4 /\ Cardinality(sessions) = 1
  /\ hist.last.kind = "me" /\ hist.last.code = 401
  /\ hist.last.token.signed /\ hist.last.token.exp > clock
  /\ \E s \in sessions : s.jti = hist.last.token.jti /\ ~s.is_active

\* the client a checkout payload names: the reference field, else the
\* metadata's client id
Named(p) ==
  IF p.client_reference_id # NoClient THEN p.client_reference_id
  ELSE p.metadata_client_id

C35_NoUnitSkipped ==
  \A u \in usage :
    (/\ Mark(clients, u.client_id) # NoTime
     /\ u.created_at <= Mark(clients, u.client_id))
      => \E i \in DOMAIN provider : u.id \in provider[i].window

\* C36: when a pass and a delivery for the same tenant overlap, neither
\* write is lost. The commit of a pass writes its 'now' to usage_synced_until
\* of the clients it marked and leaves every other column as the committed
\* row has it, whatever the pass loaded; the commit of a delivery writes the
\* columns its handler changed and leaves usage_synced_until as the committed
\* row has it, whatever the delivery loaded.
C36_NoLostUpdate ==
  /\ [][(sync.pc = "loop" /\ sync'.pc = "done")
          => \A c \in Clients :
               clients'[c] =
                 IF c \in sync.marked /\ ~sync.dry_run
                 THEN [clients[c] EXCEPT !.usage_synced_until = sync.now]
                 ELSE clients[c]]_vars
  /\ [][\A d \in Deliveries :
          (Committing(d) /\ wh'[d].pc = "done" /\ wh[d].out.target # NoClient)
            => LET t == wh[d].out.target
               IN /\ Mark(clients', t) = Mark(clients, t)
                  /\ \A f \in SubscriptionFields :
                       wh[d].out.after[f] # wh[d].loaded[f]
                         => clients'[t][f] = wh[d].out.after[f]]_vars

C36_Witness ==
  /\ sync.pc = "done" /\ sync.marked = {1} /\ ~sync.dry_run
  /\ sync.loaded[1].subscription_status = "active"
  /\ sync.loaded[1].usage_synced_until = NoTime
  /\ wh[1].pc = "done" /\ wh[1].event = 3 /\ wh[1].code = 200
  /\ clients[1] =
       [NewClient EXCEPT
          !.stripe_customer_id = "cus_A", !.stripe_subscription_id = "sub_A",
          !.stripe_metered_subscription_item_id = "si_metered",
          !.subscription_status = "canceled",
          !.subscription_current_period_end = 2,
          !.usage_synced_until = sync.now]

\* the commit of delivery d would write an id that another client holds
TakesHeldId(d) ==
  LET t == wh[d].out.target
  IN /\ t # NoClient
     /\ \E f \in {"stripe_customer_id", "stripe_subscription_id"} :
          /\ wh[d].out.after[f] # None
          /\ wh[d].out.after[f] # wh[d].loaded[f]
          /\ \E b \in Clients \ {t} : clients[b][f] = wh[d].out.after[f]

\* C37: no two clients hold the same non-null subscription id, and no two
\* the same non-null customer id; a delivery whose commit would write an id
\* that another client holds is refused by the unique index, changes no
\* client, and ends with its row 'failed' and HTTP 500.
C37_UniqueIds ==
  /\ [](\A a, b \in Clients :
          \A f \in {"stripe_customer_id", "stripe_subscription_id"} :
            (a # b /\ clients[a][f] # None) => clients[a][f] # clients[b][f])
  /\ [][\A d \in Deliveries :
          (Committing(d) /\ TakesHeldId(d))
            => wh'[d].pc = "except" /\ clients' = clients]_vars
  /\ [][\A d \in Deliveries :
          (wh[d].pc = "except" /\ wh'[d].pc = "done")
            => /\ clients' = clients
               /\ wh'[d].code = 500
               /\ RowStatus(eventLog', d) = {"failed"}]_vars

C37_Witness ==
  /\ wh[1].pc = "done" /\ wh[1].event = 1 /\ wh[1].status = "processed"
  /\ wh[2].pc = "done" /\ wh[2].event = 7 /\ wh[2].code = 500
  /\ \E r \in eventLog : r.event_id = 7 /\ r.status = "failed"
  /\ clients[1].stripe_customer_id = "cus_A"
  /\ clients[2] = NewClient

\* C38: record_meter_event always terminates; it sleeps only between a failed
\* transient attempt and the next attempt, 1 second after the first failure
\* and 2 seconds after the second, never after the third attempt, a success
\* or an error that is not retried, so the total backoff is at most 3 seconds.
C38_BackoffTerminates ==
  /\ (sync.pc = "meter") ~> (sync.pc # "meter")
  /\ [](sync.slept \in {0, 1, 3} /\ sync.calls <= MaxAttempts)
  /\ [][(sync.pc = "meter" /\ sync' # sync)
          => LET nap == sync'.slept - sync.slept
             IN IF sync'.pc = "meter"
                THEN /\ sync'.last_error = "transient"
                     /\ sync'.calls = sync.calls + 1
                     /\ sync.calls < MaxAttempts - 1
                     /\ nap = IF sync.calls = 0 THEN 1 ELSE 2
                ELSE nap = 0]_vars

C38_Witness ==
  /\ sync.pc = "failed"
  /\ sync.raised = "transient"
  /\ sync.calls = MaxAttempts
  /\ sync.slept = 3

ActiveSessions(ss, c) == {s \in ss : s.client_id = c /\ s.is_active}

\* a login of the token's client succeeded after the token was issued
LaterLogin(token) ==
  \E s \in sessions : s.client_id = token.sub /\ s.jti > token.jti

\* C39: with logins and logouts handled one after another, a client has at
\* most one active session; a successful login leaves the session it creates
\* as the client's only active one; and a request carrying a token of an
\* earlier login is answered 401 once a later login of the client succeeded.
C39_SingleSession ==
  /\ [](\A c \in Clients : Cardinality(ActiveSessions(sessions, c)) <= 1)
  /\ [][\A c \in Clients :
          (/\ hist'.requests = hist.requests + 1
           /\ hist'.last.kind = "login"
           /\ hist'.last.code = 200
           /\ hist'.last.token.sub = c)
            => /\ ActiveSessions(sessions', c) =
                    {ClientSession(c, hist'.last.token.jti,
                                   hist'.last.token.exp)}
               /\ \A s \in sessions : s.client_id = c =>
                    [s EXCEPT !.is_active = FALSE] \in sessions']_vars
  /\ []((/\ hist.last.kind \in {"me", "logout", "api-keys"}
         /\ hist.last.token \in IssuedTokens
         /\ LaterLogin(hist.last.token))
          => hist.last.code = 401)

\* two logins of one client, then its first token, not yet expired, refused
C39_Witness ==
  /\ hist.requests = 3
  /\ Cardinality(sessions) = 2
  /\ hist.last.kind = "me"
  /\ hist.last.code = 401
  /\ hist.last.token \in IssuedTokens
  /\ hist.last.token.exp > clock
  /\ LaterLogin(hist.last.token)
  /\ Cardinality(ActiveSessions(sessions, hist.last.token.sub)) = 1

\* the request carries the raw key of an active API key whose client is active
\* and has an active subscription, and the key is bound to no service or to
\* the active service of the endpoint
Entitled(token, now) ==
  /\ \E s \in services : s.code = TRANSFORM_SERVICE /\ s.is_active
  /\ \E k \in apiKeys :
       /\ token # NoKey
       /\ k.key_hash = hash_api_key(token)
       /\ k.is_active
       /\ clients[k.client_id].is_active
       /\ clients[k.client_id].billing_enabled
       /\ clients[k.client_id].subscription_status \in {"active", "trialing"}
       /\ clients[k.client_id].subscription_current_period_end
            \in {NoTime} \cup {t \in 0..(MaxClock + 1) : t > now}
       /\ k.service_id # NoService
            => \E s \in services : /\ s.id = k.service_id
                                   /\ s.code = TRANSFORM_SERVICE

\* C40: a transform request that passes API-key authentication adds exactly
\* one usage event of one unit, for the client of the key; a rejected request
\* (no or unknown key, inactive key or client, inactive subscription, key
\* bound to another service, service not configured) adds none; every usage
\* event has units >= 1.
C40_OneUnitPerRequest ==
  /\ [](\A u \in usage : u.units >= 1)
  /\ [][hist'.requests = hist.requests + 1
          => LET key == hist'.transform.key
             IN IF Entitled(key, clock)
                THEN /\ hist'.transform.code = 200
                     /\ Cardinality(usage') = Cardinality(usage) + 1
                     /\ \E u \in usage' \ usage :
                          /\ u.units = 1
                          /\ hash_api_key(key) \in
                               {k.key_hash : k \in
                                  {x \in apiKeys : x.client_id = u.client_id}}
                ELSE /\ hist'.transform.code \in {401, 503}
                     /\ usage' = usage]_vars

\* one request accepted, and the same key refused after the period ended
C40_Witness ==
  /\ hist.requests = 2
  /\ Cardinality(usage) = 1
  /\ hist.transform.code = 401
  /\ hist.transform.error = "subscription_inactive"
  /\ \E u \in usage : u.client_id = 1 /\ u.units = 1
  /\ hist.transform.key = 1

====
